---------------------------- MODULE Spec2Model ----------------------------
(***************************************************************************)
(* A model of src/generate_pptx.py: the text placeholder resolver          *)
(* (process_text_placeholders), the table placeholder expansion            *)
(* (process_table_placeholder, create_table, set_table_font_size) and the  *)
(* render loop (generate_ppt).                                             *)
(*                                                                         *)
(* Strings are sequences of one-character strings, so that find, replace   *)
(* and slicing are computed as Python computes them.  Indices of the       *)
(* string operators are 0-based, as in the source.                         *)
(***************************************************************************)
EXTENDS Integers, Sequences, FiniteSets, TLC

VARIABLES
    \* ---- process_text_placeholders on one paragraph (SpecText) ----
    runs,        \* paragraph.runs: the text of each run
    tcontent,    \* the content argument
    fulltext,    \* the local variable fulltext
    tpc,         \* position in the paragraph's loop body
    pass,        \* 1: first call, 2: the call repeated with the same content
    orig,        \* history: the concatenated text the current call started from
    afterKnown,  \* history: fulltext after the known-key loop of the current call
    firstRuns,   \* history: the runs as the first call left them
    \* ---- generate_ppt on one document (Spec) ----
    slides,      \* prs.slides: per slide the shape tree, in document order
    content,     \* the content of the record being rendered
    pc,          \* position in generate_ppt
    slideIdx,    \* the slide of the "for slide in prs.slides" loop
    nextNode,    \* the node the shape iterator will yield next (0: none)
    nRecords,    \* records taken from the batch so far
    nextId,      \* the next fresh shape id
    nProcessed,  \* history: records that were not skipped
    firstContent,\* history: content of the first record that was not skipped
    lastContent, \* history: content of the last record that was not skipped
    template,    \* history: the document as Presentation(template_path) read it
    record,      \* the loop variable record: the record last taken from the batch
    loopLog,     \* history: the shape loop of the current slide pass
    call         \* history: the last loop-body step of the shape loop

textVars == <<runs, tcontent, fulltext, tpc, pass, orig, afterKnown, firstRuns>>
docVars == <<slides, content, pc, slideIdx, nextNode, nRecords, nextId,
             nProcessed, firstContent, lastContent, template, record, loopLog,
             call>>
vars == <<runs, tcontent, fulltext, tpc, pass, orig, afterKnown, firstRuns,
          slides, content, pc, slideIdx, nextNode, nRecords, nextId,
          nProcessed, firstContent, lastContent, template, record, loopLog,
          call>>

-----------------------------------------------------------------------------
(* Python's str operations *)

Min(a, b) == IF a < b THEN a ELSE b
Max(a, b) == IF a > b THEN a ELSE b

OPEN == <<"{", "{">>
CLOSE == <<"}", "}">>
NA == <<"n", "/", "a">>

\* s[a:b] for a, b >= 0
Slice(s, a, b) == IF a >= Min(b, Len(s)) THEN <<>> ELSE SubSeq(s, a + 1, Min(b, Len(s)))

\* s.find(pat, i): the lowest index >= i where pat occurs, -1 when there is none
RECURSIVE Find(_, _, _)
Find(s, pat, i) ==
    IF i + Len(pat) > Len(s) THEN -1
    ELSE IF SubSeq(s, i + 1, i + Len(pat)) = pat THEN i
    ELSE Find(s, pat, i + 1)

\* pat in s
Contains(s, pat) == Find(s, pat, 0) # -1

\* s.replace("", new): new before every character and at the end
RECURSIVE Interleave(_, _)
Interleave(s, new) ==
    IF s = <<>> THEN new ELSE new \o <<Head(s)>> \o Interleave(Tail(s), new)

\* s.replace(old, new): every non-overlapping occurrence, left to right
RECURSIVE Replace(_, _, _)
Replace(s, old, new) ==
    IF old = <<>> THEN Interleave(s, new)
    ELSE IF Len(s) < Len(old) THEN s
    ELSE IF SubSeq(s, 1, Len(old)) = old
         THEN new \o Replace(SubSeq(s, Len(old) + 1, Len(s)), old, new)
    ELSE <<Head(s)>> \o Replace(Tail(s), old, new)

\* ''.join(parts)
RECURSIVE Join(_)
Join(parts) == IF parts = <<>> THEN <<>> ELSE Head(parts) \o Join(Tail(parts))

\* sep.join(parts)
RECURSIVE JoinSep(_, _)
JoinSep(parts, sep) ==
    IF parts = <<>> THEN <<>>
    ELSE IF Len(parts) = 1 THEN Head(parts)
    ELSE Head(parts) \o sep \o JoinSep(Tail(parts), sep)

\* s.strip(): leading and trailing blanks removed
RECURSIVE LStrip(_)
LStrip(s) == IF s # <<>> /\ Head(s) = " " THEN LStrip(Tail(s)) ELSE s
RECURSIVE RStrip(_)
RStrip(s) ==
    IF s # <<>> /\ s[Len(s)] = " " THEN RStrip(SubSeq(s, 1, Len(s) - 1)) ELSE s
Strip(s) == RStrip(LStrip(s))

\* str(n) of a non-negative int
Digit(d) == <<"0", "1", "2", "3", "4", "5", "6", "7", "8", "9">>[d + 1]
RECURSIVE Decimal(_)
Decimal(n) == IF n < 10 THEN <<Digit(n)>> ELSE Decimal(n \div 10) \o <<Digit(n % 10)>>

\* The sequences over S of length at most n
SeqsUpTo(S, n) == UNION {[1..k -> S] : k \in 0..n}

-----------------------------------------------------------------------------
(* JSON values: what json.loads returns *)

StrV(s) == [t |-> "str", s |-> s]
IntV(n) == [t |-> "int", n |-> n]
DictV(items) == [t |-> "dict", items |-> items]
ListV(elems) == [t |-> "list", elems |-> elems]
KV(k, v) == [k |-> k, v |-> v]

\* repr() of a scalar: a str in quotes, an int in decimal
ReprScalar(v) == IF v.t = "str" THEN <<"'">> \o v.s \o <<"'">> ELSE Decimal(v.n)

\* repr() of a dict of scalars, repr() of a list element
ReprDict(d) ==
    <<"{">> \o JoinSep([i \in 1..Len(d.items) |->
                           <<"'">> \o d.items[i].k \o <<"'", ":", " ">>
                           \o ReprScalar(d.items[i].v)], <<",", " ">>) \o <<"}">>
ReprElem(e) == IF e.t = "dict" THEN ReprDict(e) ELSE ReprScalar(e)

\* str(value)
Str(v) ==
    CASE v.t = "str" -> v.s
      [] v.t = "int" -> Decimal(v.n)
      [] v.t = "dict" -> ReprDict(v)
      [] v.t = "list" ->
            <<"[">> \o JoinSep([i \in 1..Len(v.elems) |-> ReprElem(v.elems[i])],
                               <<",", " ">>) \o <<"]">>

\* A dict is the sequence of its items in insertion order, keys distinct.
HasKey(items, k) == \E i \in 1..Len(items) : items[i].k = k
Lookup(items, k) == items[CHOOSE i \in 1..Len(items) : items[i].k = k].v

\* d[k] = v: an existing key keeps its place
SetKey(items, k, v) ==
    IF HasKey(items, k)
    THEN [i \in 1..Len(items) |-> IF items[i].k = k THEN KV(k, v) ELSE items[i]]
    ELSE Append(items, KV(k, v))

\* list(d.keys())
Keys(items) == [i \in 1..Len(items) |-> items[i].k]

-----------------------------------------------------------------------------
(* process_text_placeholders: the body of the paragraph loop *)

\* f"{{{{{placeholder_name}}}}}"
placeholder_tag(placeholder_name) == OPEN \o placeholder_name \o CLOSE

\* for placeholder_name, value in content.items(): replace the tag if present
RECURSIVE KnownSubst(_, _)
KnownSubst(text, items) ==
    IF items = <<>> THEN text
    ELSE LET tag == placeholder_tag(Head(items).k)
             t2 == IF Contains(text, tag)
                   THEN Replace(text, tag, Str(Head(items).v))
                   ELSE text
         IN KnownSubst(t2, Tail(items))

\* (FallbackCondLiteral: the condition testing for the literal "{{}}" instead)
FallbackCondLiteral(text) == Contains(text, OPEN \o CLOSE)

\* while "{{" in fulltext and "}}" in fulltext
FallbackCond(text) == Contains(text, OPEN) /\ Contains(text, CLOSE)

\* (FallbackStepEmpty: the iteration with "" as the replacement)
FallbackStepEmpty(text) ==
    LET start_idx == Find(text, OPEN, 0)
        end_idx == Find(text, CLOSE, start_idx) + 2
    IN Replace(text, Slice(text, start_idx, end_idx), <<>>)

\* One iteration of the while loop.
FallbackStep(text) ==
    LET start_idx == Find(text, OPEN, 0)
        end_idx == Find(text, CLOSE, start_idx) + 2
    IN Replace(text, Slice(text, start_idx, end_idx), NA)

\* The while loop, run to its end.
RECURSIVE FallbackLoop(_)
FallbackLoop(text) ==
    IF FallbackCond(text) THEN FallbackLoop(FallbackStep(text)) ELSE text

FallbackScan(text) == FallbackLoop(text)

\* Clear all runs and assign the text to the first run; no runs: nothing.
AssignRuns(rs, text) == [i \in 1..Len(rs) |-> IF i = 1 THEN text ELSE <<>>]

\* The whole loop body for one paragraph.
ResolveParagraph(rs, items) == AssignRuns(rs, FallbackScan(KnownSubst(Join(rs), items)))

-----------------------------------------------------------------------------
(* The document: slides, shapes, tables.                                   *)
(*                                                                         *)
(* A shape is a text shape (has_text_frame) with its paragraphs, each the  *)
(* sequence of its runs' texts, or a graphic frame holding a table         *)
(* (has_table).  A cell holds one paragraph: text is its text, and a cell  *)
(* has a run exactly when its text is not empty; size and bold are that    *)
(* run's font, psize and pbold the paragraph's own font (paragraph.font),  *)
(* each None or a value (Pt(n), Flag(b)).  id is the identity of the      *)
(* shape's element.                                                        *)

\* An optional attribute: None, or the one-element sequence of its value.
None == <<>>
Pt(n) == <<n>>
Flag(b) == <<b>>

Cell(text, size, bold, psize, pbold) ==
    [text |-> text, size |-> size, bold |-> bold, psize |-> psize, pbold |-> pbold]

\* A cell as add_table creates it: one empty paragraph, no run.
EmptyCell == Cell(<<>>, None, None, None, None)

\* cell.text = text: the text frame is cleared and holds one new paragraph,
\* with one run when the text is not empty.
SetCellText(text) == Cell(text, None, None, None, None)

TextShape(id, paras) == [id |-> id, kind |-> "text", paras |-> paras]
TableShape(id, cells, geom, style) ==
    [id |-> id, kind |-> "table", cells |-> cells, geom |-> geom, style |-> style]

\* PPTX_TABLE_STYLE_ID, read from the environment: an opaque string
PPTX_TABLE_STYLE_ID == "style"

\* The fixed font size of set_table_font_size's callers, in points
FallbackFontSize == 11

\* table.cell(0, 0).text[8:-2]
AnchorSlice(text) == Slice(text, 8, Max(Len(text) - 2, 0))

\* set_table_font_size: every run of every cell gets the size
set_table_font_size(cells, font_size) ==
    [r \in 1..Len(cells) |->
        [c \in 1..Len(cells[r]) |->
            IF cells[r][c].text # <<>>
            THEN [cells[r][c] EXCEPT !.size = Pt(font_size)]
            ELSE cells[r][c]]]

\* create_table: add_table's empty cells, the style id stamped, then the font
\* size and the bold flag given to every run the cells hold
create_table(id, rows, cols, geom, font_size, font_bold) ==
    LET fresh == [r \in 1..rows |-> [c \in 1..cols |-> EmptyCell]]
        formatted ==
            [r \in 1..rows |->
                [c \in 1..cols |->
                    IF fresh[r][c].text # <<>>
                    THEN [fresh[r][c] EXCEPT !.size = font_size, !.bold = font_bold]
                    ELSE fresh[r][c]]]
    IN TableShape(id, formatted, geom, PPTX_TABLE_STYLE_ID)

\* (IsArrayAnyLength: the test without "or not value")
IsArrayAnyLength(value) == value.t = "list"

\* not (not isinstance(value, list) or not value)
IsArray(value) == value.t = "list" /\ value.elems # <<>>

\* str(item.get(header, ""))
CellValue(item, header) ==
    IF HasKey(item.items, header) THEN Str(Lookup(item.items, header)) ELSE <<>>

\* The data rows, written item by item; an item that is no dict has no get():
\* the AttributeError leaves the rows written so far and ends the call.
RECURSIVE InsertRows(_, _, _, _)
InsertRows(cells, items, row_idx, headers) ==
    IF items = <<>> THEN [cells |-> cells, raised |-> FALSE]
    ELSE IF Head(items).t # "dict" THEN [cells |-> cells, raised |-> TRUE]
    ELSE InsertRows(
            [cells EXCEPT ![row_idx + 1] =
                [c \in 1..Len(headers) |-> SetCellText(CellValue(Head(items), headers[c]))]],
            Tail(items), row_idx + 1, headers)

\* shapes without the one at position i
RemoveAt(shapes, i) == SubSeq(shapes, 1, i - 1) \o SubSeq(shapes, i + 1, Len(shapes))

\* process_table_placeholder on the table at position i of the slide's shapes.
\* outcome: "nodata" (the first return), "invalid" (the second return),
\* "replaced" (the end of the function), "raised" (an exception leaves it).
process_table_placeholder(shapes, i, cont, newId) ==
    LET table == shapes[i]
        placeholder_name == Strip(AnchorSlice(table.cells[1][1].text))
        value == IF HasKey(cont, placeholder_name)
                 THEN Lookup(cont, placeholder_name) ELSE ListV(<<>>)
        result(sh, outcome, fs, fb, created) ==
            [shapes |-> sh, outcome |-> outcome, name |-> placeholder_name,
             font_size |-> fs, font_bold |-> fb, created |-> created]
    IN IF ~IsArray(value)
       THEN LET marked == [table.cells EXCEPT ![1][1] = SetCellText(NA)]
            IN result([shapes EXCEPT ![i].cells =
                           set_table_font_size(marked, FallbackFontSize)],
                      "nodata", None, None, 0)
       ELSE IF value.elems = <<>>      \* value[0] of an empty list: IndexError
       THEN result(shapes, "raised", None, None, 0)
       ELSE IF value.elems[1].t # "dict"
       THEN result(shapes, "invalid", None, None, 0)
       ELSE
         LET headers == Keys(value.elems[1].items)
             rows == Len(value.elems) + 1
             cols == Len(headers)
             font_size == table.cells[1][1].psize
             font_bold == table.cells[1][1].pbold
             new_table == create_table(newId, rows, cols, table.geom, font_size, font_bold)
             withHeaders == [new_table.cells EXCEPT ![1] =
                                [c \in 1..cols |-> SetCellText(headers[c])]]
             filled == InsertRows(withHeaders, value.elems, 1, headers)
             removed == RemoveAt(shapes, i)
         IN IF filled.raised
            THEN result(Append(removed, [new_table EXCEPT !.cells = filled.cells]),
                        "raised", font_size, font_bold, newId)
            ELSE result(Append(removed,
                               [new_table EXCEPT !.cells =
                                    set_table_font_size(filled.cells, FallbackFontSize)]),
                        "replaced", font_size, font_bold, newId)

\* process_text_placeholders on one slide: every paragraph of every shape that
\* has a text frame
process_text_placeholders(shapes, cont) ==
    [i \in 1..Len(shapes) |->
        IF shapes[i].kind = "text"
        THEN [shapes[i] EXCEPT !.paras =
                [p \in 1..Len(shapes[i].paras) |->
                    ResolveParagraph(shapes[i].paras[p], cont)]]
        ELSE shapes[i]]

-----------------------------------------------------------------------------
(* Spec: generate_ppt renders a batch of records into one document.        *)

MaxShapes == 2
MaxRecords == 3

\* jobid and jobdate as the caller and datetime.now() give them
JobId == <<"J", "1">>
JobDate == <<"D", "2">>
KeyJobId == <<"j", "o", "b", "i", "d">>
KeyJobDate == <<"j", "o", "b", "d", "a", "t", "e">>

\* "{{table:", the 8 characters the anchor cell's slice drops
TablePrefix == <<"{", "{", "t", "a", "b", "l", "e", ":">>

\* The shapes a template slide is made of.  The text shape holds a token that
\* spans three runs, the jobid token, and a paragraph without runs.
TemplateText(id) ==
    TextShape(id, << <<OPEN, <<"t">>, CLOSE, <<"-">>, placeholder_tag(KeyJobId)>>, <<>> >>)

\* A one-row placeholder table: the anchor cell and one more cell.
TemplateTableR(id) ==
    TableShape(id,
        << << Cell(TablePrefix \o <<"r">> \o CLOSE, Pt(14), None, Pt(18), Flag(TRUE)),
              Cell(<<"x">>, Pt(14), None, None, None) >> >>,
        id, "template")

\* A two-row placeholder table whose anchor names the key between blanks.
TemplateTableS(id) ==
    TableShape(id,
        << << Cell(TablePrefix \o <<" ", "r", " ">> \o CLOSE, None, None, None, None) >>,
           << Cell(<<"y">>, Pt(12), Flag(TRUE), None, None) >> >>,
        id, "template")

ShapeKinds == {"text", "tableR", "tableS"}

MakeShape(kind, id) ==
    CASE kind = "text" -> TemplateText(id)
      [] kind = "tableR" -> TemplateTableR(id)
      [] kind = "tableS" -> TemplateTableS(id)

MakeSlide(layout) == [i \in 1..Len(layout) |-> MakeShape(layout[i], i)]

\* A template: one slide of up to MaxShapes shapes in any order, alone or
\* followed by a second slide.
Templates ==
    LET first == {MakeSlide(l) : l \in SeqsUpTo(ShapeKinds, MaxShapes)}
    IN {<<f>> : f \in first} \cup {<<f, MakeSlide(<<"tableR", "text">>)>> : f \in first}

\* What a record's jeschro_content decodes to.
KeyT == <<"t">>
KeyR == <<"r">>
ColA == <<"a">>
ColB == <<"b">>

Decoded ==
    { \* two records, the second without the first's key "a"
      <<KV(KeyT, StrV(<<"v">>)),
        KV(KeyR, ListV(<<DictV(<<KV(ColA, IntV(1)), KV(ColB, StrV(<<"x">>))>>),
                         DictV(<<KV(ColB, IntV(40))>>)>>))>>,
      \* an empty list
      <<KV(KeyT, StrV(<<"w">>)), KV(KeyR, ListV(<<>>))>>,
      \* no list
      <<KV(KeyR, IntV(7))>>,
      \* a list whose second element is no record
      <<KV(KeyR, ListV(<<DictV(<<KV(ColA, IntV(1))>>), IntV(5)>>))>>,
      \* a list whose first element is no record
      <<KV(KeyR, ListV(<<IntV(5)>>))>> }

\* A record: without the field, with a field json.loads rejects, with a field
\* that decodes to an object, or with a field that decodes to a number.
Records ==
    {[field |-> "absent"], [field |-> "malformed"], [field |-> "number"]}
    \cup {[field |-> "json", value |-> d] : d \in Decoded}

\* (ParseContentNoSkip: the except branch without its continue)
ParseContentNoSkip(rec) ==
    CASE rec.field = "absent" -> [skip |-> FALSE, content |-> DictV(<<>>)]
      [] rec.field = "malformed" -> [skip |-> FALSE, content |-> DictV(<<>>)]
      [] rec.field = "number" -> [skip |-> FALSE, content |-> IntV(5)]
      [] rec.field = "json" -> [skip |-> FALSE, content |-> DictV(rec.value)]

\* content = {}; the field, when present, is decoded; a JSONDecodeError skips
\* the record.
ParseContent(rec) ==
    CASE rec.field = "absent" -> [skip |-> FALSE, content |-> DictV(<<>>)]
      [] rec.field = "malformed" -> [skip |-> TRUE, content |-> DictV(<<>>)]
      [] rec.field = "number" -> [skip |-> FALSE, content |-> IntV(5)]
      [] rec.field = "json" -> [skip |-> FALSE, content |-> DictV(rec.value)]

\* content['jobid'] = jobid; content['jobdate'] = jobdate
Inject(cont) == SetKey(SetKey(cont, KeyJobId, StrV(JobId)), KeyJobDate, StrV(JobDate))

TableIds(shapes) == {shapes[i].id : i \in {j \in 1..Len(shapes) : shapes[j].kind = "table"}}
ShapeIds(shapes) == [i \in 1..Len(shapes) |-> shapes[i].id]
IndexOf(shapes, id) == CHOOSE i \in 1..Len(shapes) : shapes[i].id = id

NoCall == [kind |-> "none"]
NoLoop == [slide |-> 0, start |-> {}, visited |-> <<>>, created |-> {}, ended |-> TRUE]

Init ==
    /\ template \in Templates
    /\ slides = template
    /\ content = <<>>
    /\ pc = "record"
    /\ slideIdx = 0
    /\ nextNode = 0
    /\ nRecords = 0
    /\ nextId = MaxShapes + 1
    /\ nProcessed = 0
    /\ firstContent = <<>>
    /\ lastContent = <<>>
    /\ record = [field |-> "none"]
    /\ loopLog = NoLoop
    /\ call = NoCall
    /\ runs = <<>> /\ tcontent = <<>> /\ fulltext = <<>> /\ tpc = "idle"
    /\ pass = 0 /\ orig = <<>> /\ afterKnown = <<>> /\ firstRuns = <<>>

\* The record loop takes the next record; its field does not decode, and the
\* loop continues with the record after it.
SkipRecord ==
    /\ pc = "record"
    /\ nRecords < MaxRecords
    /\ \E rec \in Records :
          /\ ParseContent(rec).skip
          /\ record' = rec
          /\ content' = ParseContent(rec).content.items
    /\ nRecords' = nRecords + 1
    /\ UNCHANGED <<slides, pc, slideIdx, nextNode, nextId, nProcessed, firstContent,
                   lastContent, template, loopLog, call>>
    /\ UNCHANGED textVars

\* What supports content['jobid'] = jobid
IsObject(decoded) == decoded.t = "dict"

\* The record loop takes the next record; its field decodes to a number, and
\* content['jobid'] = jobid raises a TypeError that leaves generate_ppt.
RecordRaises ==
    /\ pc = "record"
    /\ nRecords < MaxRecords
    /\ \E rec \in Records :
          /\ ~ParseContent(rec).skip
          /\ ~IsObject(ParseContent(rec).content)
          /\ record' = rec
          /\ content' = <<>>
    /\ nRecords' = nRecords + 1
    /\ pc' = "error"
    /\ UNCHANGED <<slides, slideIdx, nextNode, nextId, nProcessed, firstContent,
                   lastContent, template, loopLog, call>>
    /\ UNCHANGED textVars

\* The record loop takes the next record, builds its content and enters the
\* slide loop.
StartRecord ==
    /\ pc = "record"
    /\ nRecords < MaxRecords
    /\ \E rec \in Records :
          /\ ~ParseContent(rec).skip
          /\ IsObject(ParseContent(rec).content)
          /\ record' = rec
          /\ content' = Inject(ParseContent(rec).content.items)
    /\ nRecords' = nRecords + 1
    /\ nProcessed' = nProcessed + 1
    /\ firstContent' = IF nProcessed = 0 THEN content' ELSE firstContent
    /\ lastContent' = content'
    /\ slideIdx' = 1
    /\ pc' = "text"
    /\ UNCHANGED <<slides, nextNode, nextId, template, loopLog, call>>
    /\ UNCHANGED textVars

\* process_text_placeholders(slide, content), then the shape loop's iterator
\* is created: it holds the slide's first shape.
SlideText ==
    /\ pc = "text"
    /\ slideIdx <= Len(slides)
    /\ slides' = [slides EXCEPT ![slideIdx] = process_text_placeholders(@, content)]
    /\ nextNode' = IF slides[slideIdx] = <<>> THEN 0 ELSE slides[slideIdx][1].id
    /\ loopLog' = [slide |-> slideIdx, start |-> TableIds(slides[slideIdx]),
                   visited |-> <<>>, created |-> {}, ended |-> FALSE]
    /\ pc' = "shapes"
    /\ UNCHANGED <<content, slideIdx, nRecords, nextId, nProcessed, firstContent,
                   lastContent, template, record, call>>
    /\ UNCHANGED textVars

\* The shape the iterator yields when the node it holds is id: the iterator
\* moves to the element that follows the yielded one before the loop body runs.
Following(shapes, id) ==
    IF IndexOf(shapes, id) < Len(shapes) THEN shapes[IndexOf(shapes, id) + 1].id ELSE 0

\* One iteration of "for shape in slide.shapes": the shape is yielded, and a
\* shape that has a table is given to process_table_placeholder.
ShapeStep ==
    /\ pc = "shapes"
    /\ nextNode # 0
    /\ LET shapes == slides[slideIdx]
           i == IndexOf(shapes, nextNode)
       IN /\ nextNode' = Following(shapes, nextNode)
          /\ IF shapes[i].kind = "table"
             THEN LET r == process_table_placeholder(shapes, i, content, nextId)
                  IN /\ slides' = [slides EXCEPT ![slideIdx] = r.shapes]
                     /\ nextId' = IF r.created # 0 THEN nextId + 1 ELSE nextId
                     /\ pc' = IF r.outcome = "raised" THEN "error" ELSE "shapes"
                     /\ call' = [kind |-> "table", slide |-> slideIdx, id |-> nextNode,
                                 cont |-> content, before |-> shapes,
                                 after |-> r.shapes, outcome |-> r.outcome,
                                 name |-> r.name, font_size |-> r.font_size,
                                 font_bold |-> r.font_bold, created |-> r.created]
                     /\ loopLog' = [loopLog EXCEPT
                                       !.visited = Append(@, nextNode),
                                       !.created = IF r.created # 0
                                                   THEN @ \cup {r.created} ELSE @]
             ELSE /\ call' = [kind |-> "other", slide |-> slideIdx, id |-> nextNode]
                  /\ UNCHANGED <<slides, nextId, pc, loopLog>>
    /\ UNCHANGED <<content, slideIdx, nRecords, nProcessed, firstContent,
                   lastContent, template, record>>
    /\ UNCHANGED textVars

\* The shape loop ends; the slide loop goes on, or ends and gives way to the
\* record loop.
NextSlide ==
    /\ pc = "shapes"
    /\ nextNode = 0
    /\ loopLog' = [loopLog EXCEPT !.ended = TRUE]
    /\ IF slideIdx < Len(slides)
       THEN slideIdx' = slideIdx + 1 /\ pc' = "text"
       ELSE slideIdx' = 0 /\ pc' = "record"
    /\ UNCHANGED <<slides, content, nextNode, nRecords, nextId, nProcessed,
                   firstContent, lastContent, template, record, call>>
    /\ UNCHANGED textVars

\* The record loop ends: prs.save
Save ==
    /\ pc = "record"
    /\ pc' = "done"
    /\ UNCHANGED <<slides, content, slideIdx, nextNode, nRecords, nextId, nProcessed,
                   firstContent, lastContent, template, record, loopLog, call>>
    /\ UNCHANGED textVars

Next == SkipRecord \/ RecordRaises \/ StartRecord \/ SlideText \/ ShapeStep \/ NextSlide \/ Save

Spec == Init /\ [][Next]_vars

-----------------------------------------------------------------------------
(* Properties of the table expansion and of generate_ppt, checked under    *)
(* Spec.  call holds the last call of process_table_placeholder: the       *)
(* slide's shapes before and after it, and the content it was given.       *)

TableCall == call.kind = "table"

\* The table the call was given, and the name its anchor cell holds.
CallTable == call.before[IndexOf(call.before, call.id)]
CallName == Strip(AnchorSlice(CallTable.cells[1][1].text))
CallBound == HasKey(call.cont, CallName)
CallValue == Lookup(call.cont, CallName)

\* The anchor names a key bound to a non-empty list whose first element is a
\* record.
CallOnRecords ==
    /\ TableCall
    /\ CallBound
    /\ CallValue.t = "list"
    /\ CallValue.elems # <<>>
    /\ CallValue.elems[1].t = "dict"

\* The shapes the call added.
Added == {k \in 1..Len(call.after) :
             \A j \in 1..Len(call.before) : call.before[j].id # call.after[k].id}

\* The texts an element may show under a header: the stringified value, the
\* empty string for a record without the key, nothing for what is no record.
Shown(elem, header) ==
    IF elem.t # "dict" THEN {}
    ELSE IF HasKey(elem.items, header) THEN {Str(Lookup(elem.items, header))}
    ELSE {<<>>}

\* C1: a call on a table whose anchor names a key bound to a non-empty list
\* whose first element is a record with key list H removes the placeholder and
\* adds exactly one table, of len(list)+1 rows and len(H) columns, whose row 0
\* is H and whose row i holds the stringified values of element i-1 under H.
C1_TableFromRecords ==
    CallOnRecords =>
        LET H == Keys(CallValue.elems[1].items)
            n == Len(CallValue.elems)
        IN /\ \A k \in 1..Len(call.after) : call.after[k].id # call.id
           /\ Cardinality(Added) = 1
           /\ \A k \in Added :
                 /\ call.after[k].kind = "table"
                 /\ Len(call.after[k].cells) = n + 1
                 /\ \A r \in 1..(n + 1) : Len(call.after[k].cells[r]) = Len(H)
                 /\ \A c \in 1..Len(H) : call.after[k].cells[1][c].text = H[c]
                 /\ \A r \in 1..n : \A c \in 1..Len(H) :
                       call.after[k].cells[r + 1][c].text \in Shown(CallValue.elems[r], H[c])

\* C5: a call on a list whose first element is a record completes without
\* error, and a cell whose element lacks the column's key holds the empty
\* string.
C5_MissingKeysNeverError ==
    CallOnRecords =>
        LET H == Keys(CallValue.elems[1].items)
            n == Len(CallValue.elems)
        IN /\ call.outcome # "raised"
           /\ \A k \in Added : \A r \in 1..n : \A c \in 1..Len(H) :
                 (CallValue.elems[r].t = "dict" /\ ~HasKey(CallValue.elems[r].items, H[c]))
                     => call.after[k].cells[r + 1][c].text = <<>>

\* The anchor's name is absent from the content, bound to no list, or bound to
\* an empty list.
CallOnNoData ==
    /\ TableCall
    /\ \/ ~CallBound
       \/ CallValue.t # "list"
       \/ CallValue.elems = <<>>

\* C6: such a call adds no table and removes no shape, and the only text of
\* the placeholder table that changes is the anchor cell's, which becomes "n/a".
C6_NoDataKeepsShapes ==
    CallOnNoData =>
        LET i == IndexOf(call.before, call.id)
        IN /\ call.outcome # "raised"
           /\ ShapeIds(call.after) = ShapeIds(call.before)
           /\ \A j \in 1..Len(call.before) : j # i => call.after[j] = call.before[j]
           /\ call.after[i].kind = "table"
           /\ Len(call.after[i].cells) = Len(call.before[i].cells)
           /\ \A r \in 1..Len(call.before[i].cells) :
                 /\ Len(call.after[i].cells[r]) = Len(call.before[i].cells[r])
                 /\ \A c \in 1..Len(call.before[i].cells[r]) :
                       call.after[i].cells[r][c].text =
                           IF r = 1 /\ c = 1 THEN NA ELSE call.before[i].cells[r][c].text

C6_Witness ==
    /\ CallOnNoData
    /\ CallBound
    /\ CallValue.t = "list"
    /\ Len(CallTable.cells) > 1
    /\ CallTable.cells[1][1].text # NA
    /\ call.after[IndexOf(call.before, call.id)].cells[1][1].text = NA

\* C9: after a replacement every cell's text of the new table carries the
\* font size and the bold flag captured from the placeholder's anchor cell.
C9_CapturedFontOnEveryCell ==
    (TableCall /\ call.outcome = "replaced") =>
        \A k \in Added : \A r \in 1..Len(call.after[k].cells) :
            \A c \in 1..Len(call.after[k].cells[r]) :
                call.after[k].cells[r][c].text # <<>> =>
                    /\ call.after[k].cells[r][c].size = CallTable.cells[1][1].psize
                    /\ call.after[k].cells[r][c].bold = CallTable.cells[1][1].pbold

\* How often id occurs in the sequence q.
Count(q, id) == Cardinality({k \in 1..Len(q) : q[k] = id})

\* C8: in one slide pass every table present when the shape loop starts is
\* given to process_table_placeholder exactly once, and no table created by a
\* replacement in the loop is given to it in the same loop.
C8_LoopOverSnapshot ==
    /\ \A k \in 1..Len(loopLog.visited) : loopLog.visited[k] \notin loopLog.created
    /\ (loopLog.ended /\ pc # "error") =>
          \A id \in loopLog.start : Count(loopLog.visited, id) = 1

\* The paragraphs of the template's text shapes as resolved with cont.
TextFrom(cont) ==
    [s \in 1..Len(template) |-> process_text_placeholders(template[s], cont)]

\* The text shapes of the document hold the paragraphs doc holds for them.
SameText(doc) ==
    \A s \in 1..Len(slides) : \A k \in 1..Len(slides[s]) :
        slides[s][k].kind = "text" =>
            \E j \in 1..Len(doc[s]) :
                /\ doc[s][j].id = slides[s][k].id
                /\ doc[s][j].paras = slides[s][k].paras

\* The cell texts of a table.
CellTexts(table) ==
    [r \in 1..Len(table.cells) |->
        [c \in 1..Len(table.cells[r]) |-> table.cells[r][c].text]]

\* The cell texts of what the template's table at position i of slide s becomes
\* when it is resolved with cont: the new table, or the placeholder itself.
TableFrom(s, i, cont) ==
    LET r == process_table_placeholder(template[s], i, cont, 0)
    IN IF r.outcome = "replaced"
       THEN CellTexts(r.shapes[Len(r.shapes)])
       ELSE CellTexts(r.shapes[i])

\* Every table placeholder of the template shows in the document as resolved
\* with cont.
SameTables(cont) ==
    \A s \in 1..Len(template) : \A i \in 1..Len(template[s]) :
        (/\ template[s][i].kind = "table"
         /\ process_table_placeholder(template[s], i, cont, 0).outcome # "raised") =>
            \E k \in 1..Len(slides[s]) :
                /\ slides[s][k].kind = "table"
                /\ CellTexts(slides[s][k]) = TableFrom(s, i, cont)

\* C3: when several records were rendered, the text or table content of every
\* placeholder of the template is, in the final document, the one produced
\* from the last record that was not skipped.
C3_LastRecordWins ==
    (pc = "done" /\ nProcessed >= 2) =>
        /\ SameText(TextFrom(lastContent))
        /\ SameTables(lastContent)

\* What generate_ppt does instead, for text: between records and in the final
\* document every text paragraph is the one produced from the first record
\* that was not skipped.
FirstRecordTextStays ==
    (pc \in {"record", "done"} /\ nProcessed >= 1) => SameText(TextFrom(firstContent))

\* C4: taking a record whose field does not decode changes no slide, raises
\* nothing and leaves the loop where the next record is taken: all that the
\* processing of a later record reads is as it was before the record.
C4_MalformedSkipped ==
    [][(nRecords' = nRecords + 1 /\ record'.field = "malformed") =>
          /\ slides' = slides
          /\ pc = "record" /\ pc' = "record"
          /\ slideIdx' = slideIdx /\ nextNode' = nextNode /\ nextId' = nextId
          /\ nProcessed' = nProcessed]_vars

\* A record is rendered after an earlier record of the batch was skipped.
C4_Witness ==
    /\ pc = "shapes"
    /\ nRecords > nProcessed
    /\ nProcessed >= 1
    /\ record.field = "json"

-----------------------------------------------------------------------------
(* SpecText: process_text_placeholders called on one paragraph, then called *)
(* again with the same content.                                             *)

MaxRuns == 4

\* The text a run of the paragraph may hold: a marker, a name, a whole token.
RunTexts == {OPEN, CLOSE, <<"a">>, OPEN \o <<"b">> \o CLOSE}

\* Keys are placeholder names; values are what str() is applied to.
TextKeys == {<<"a">>, <<"b">>}
TextValues == {IntV(12), StrV(OPEN \o <<"b">> \o CLOSE), StrV(CLOSE)}

Paragraphs == SeqsUpTo(RunTexts, MaxRuns)

TextContents ==
    {c \in SeqsUpTo([k : TextKeys, v : TextValues], Cardinality(TextKeys)) :
        \A i, j \in 1..Len(c) : i # j => c[i].k # c[j].k}

\* The document side is idle while a single paragraph is resolved.
DocIdle ==
    /\ slides = <<>> /\ content = <<>> /\ pc = "idle" /\ slideIdx = 0
    /\ nextNode = 0 /\ nRecords = 0 /\ nextId = 0 /\ nProcessed = 0
    /\ firstContent = <<>> /\ lastContent = <<>> /\ template = <<>>
    /\ record = <<>> /\ loopLog = <<>> /\ call = <<>>

InitText ==
    /\ runs \in Paragraphs
    /\ tcontent \in TextContents
    /\ fulltext = <<>>
    /\ tpc = "start"
    /\ pass = 1
    /\ orig = <<>>
    /\ afterKnown = <<>>
    /\ firstRuns = <<>>
    /\ DocIdle

\* fulltext = ''.join(run.text for run in paragraph.runs)
TConcat ==
    /\ tpc = "start"
    /\ fulltext' = Join(runs)
    /\ orig' = Join(runs)
    /\ tpc' = "known"
    /\ UNCHANGED <<runs, tcontent, pass, afterKnown, firstRuns>>
    /\ UNCHANGED docVars

\* the for loop over content.items()
TKnown ==
    /\ tpc = "known"
    /\ fulltext' = KnownSubst(fulltext, tcontent)
    /\ afterKnown' = fulltext'
    /\ tpc' = "fallback"
    /\ UNCHANGED <<runs, tcontent, pass, orig, firstRuns>>
    /\ UNCHANGED docVars

\* one iteration of the while loop
TFallback ==
    /\ tpc = "fallback"
    /\ FallbackCond(fulltext)
    /\ fulltext' = FallbackStep(fulltext)
    /\ UNCHANGED <<runs, tcontent, tpc, pass, orig, afterKnown, firstRuns>>
    /\ UNCHANGED docVars

\* the while loop ends; the runs are cleared and the first run gets the text
TAssign ==
    /\ tpc = "fallback"
    /\ ~FallbackCond(fulltext)
    /\ runs' = AssignRuns(runs, fulltext)
    /\ tpc' = "done"
    /\ UNCHANGED <<tcontent, fulltext, pass, orig, afterKnown, firstRuns>>
    /\ UNCHANGED docVars

\* the caller resolves the same paragraph again with the same content
TAgain ==
    /\ tpc = "done"
    /\ pass = 1
    /\ pass' = 2
    /\ firstRuns' = runs
    /\ tpc' = "start"
    /\ UNCHANGED <<runs, tcontent, fulltext, orig, afterKnown>>
    /\ UNCHANGED docVars

NextText == TConcat \/ TKnown \/ TFallback \/ TAssign \/ TAgain

SpecText == InitText /\ [][NextText]_vars

-----------------------------------------------------------------------------
(* Properties of process_text_placeholders, checked under SpecText *)

\* A string without a brace.
BraceFree(s) == \A i \in 1..Len(s) : s[i] \notin {"{", "}"}

\* No span opens with "{{" and closes with a later "}}".
NoSpan(s) == Find(s, OPEN, 0) = -1 \/ Find(s, CLOSE, Find(s, OPEN, 0)) = -1

\* The names whose token occurs in the text the call started from and that are
\* no key of the content.
UnknownNames == {n \in TextKeys : ~HasKey(tcontent, n) /\ Contains(orig, placeholder_tag(n))}

\* The token of name n stands at index p of s, between brace-free text.
AloneAt(s, n, p) ==
    /\ Slice(s, p, p + Len(placeholder_tag(n))) = placeholder_tag(n)
    /\ BraceFree(Slice(s, 0, p))
    /\ BraceFree(Slice(s, p + Len(placeholder_tag(n)), Len(s)))

C2Post ==
    /\ NoSpan(fulltext)
    /\ \A n \in UnknownNames :
          /\ ~Contains(fulltext, placeholder_tag(n))
          /\ Contains(fulltext, NA)
          /\ \A p \in 0..Len(orig) :
                AloneAt(orig, n, p) =>
                    fulltext = Slice(orig, 0, p) \o NA
                               \o Slice(orig, p + Len(placeholder_tag(n)), Len(orig))
    /\ runs # <<>> => Join(runs) = fulltext

\* The number of places of s where "{{" stands: what the while loop runs down.
Opens(s) == Cardinality({i \in 0..Len(s) : Slice(s, i, i + 2) = OPEN})

\* C2: resolving a paragraph terminates (every iteration of its only unbounded
\* loop, the while loop, leaves fewer "{{" than it found, so the loop condition
\* fails after finitely many iterations), and in the resolved text no span from "{{" to a later "}}" remains, no
\* token of a name that is not a key of the content survives, and "n/a" stands
\* where such a token stood.
C2_UnknownTokensBecomeNA ==
    /\ [][(tpc = "fallback" /\ tpc' = "fallback") => Opens(fulltext') < Opens(fulltext)]_vars
    /\ [](tpc = "done" => C2Post)

C2_Witness ==
    /\ tpc = "done" /\ pass = 1
    /\ UnknownNames # {}
    /\ \E n \in UnknownNames : \E p \in 1..Len(orig) : AloneAt(orig, n, p)
    /\ Contains(fulltext, NA)

\* C7: a second call with the same content leaves every run's text as the
\* first call left it; after a call the text never holds both markers.
C7_Idempotent ==
    /\ tpc = "done" => ~FallbackCond(Join(runs))
    /\ (tpc = "done" /\ pass = 2) => runs = firstRuns

C7_Witness ==
    /\ tpc = "done" /\ pass = 2
    /\ Len(runs) >= 2
    /\ Contains(runs[1], NA)
    /\ Contains(runs[1], <<"1", "2">>)

\* No "}}" occurs at or after the first "{{" of s.
Unclosed(s) == Contains(s, OPEN) /\ Find(s, CLOSE, Find(s, OPEN, 0)) = -1

\* C10: a text in which no "}}" occurs at or after the first "{{" leaves the
\* fallback scan exactly as it entered it, with no "n/a" inserted.
C10_UnclosedLeftAlone ==
    (tpc = "done" /\ Unclosed(afterKnown)) => fulltext = afterKnown

=============================================================================
